---- MODULE Spec2Model ----
(***************************************************************************)
(* A model of scanpy/tools/_marker_gene_overlap.py: the three overlap      *)
(* metrics, the selection of the data-derived marker sets from a           *)
(* rank_genes_groups table, and marker_gene_overlap itself, acting on the  *)
(* annotation store adata.uns.                                             *)
(*                                                                         *)
(* Representation.                                                         *)
(*   dict          a sequence of entries [k |-> key, v |-> value], in      *)
(*                 insertion order                                         *)
(*   dict value    [kind |-> "set" | "list", items |-> set of genes]       *)
(*   Optional[int] <<>> for None, <<n>> for the number n                   *)
(*   float         [num |-> n, den |-> d]: n/d when d > 0, NaN when        *)
(*                 n = d = 0, +inf when d = 0 < n                          *)
(*   p-values      fixed point, in units of 1/PRes: the float 1.0 is PRes  *)
(*   ndarray       a sequence of rows, each a sequence of floats           *)
(***************************************************************************)
EXTENDS Integers, Sequences, FiniteSets, TLC

VARIABLES uns, reference_markers, call, ret, markers1, markers2, overlaps

vars == <<uns, reference_markers, call, ret, markers1, markers2, overlaps>>

(***************************************************************************)
(* Bounds                                                                  *)
(***************************************************************************)
NumGenes == 2

PRes == 1

Genes == 1..NumGenes

PyNone == "<None>"

(***************************************************************************)
(* Floats                                                                  *)
(***************************************************************************)
\* a function with domain 1..n, as the sequence it is
Array(f) == f \o <<>>

Float(n) == [num |-> n, den |-> 1]

NaN == [num |-> 0, den |-> 0]

Inf == [num |-> 1, den |-> 0]

FloatMax == [num |-> 1000000, den |-> 1]

IsNaN(x) == x.num = 0 /\ x.den = 0

IsInf(x) == x.num # 0 /\ x.den = 0

IsFinite(x) == x.den > 0

\* numpy float division: x/0 is nan or inf (a RuntimeWarning, no exception)
NpDiv(x, y) ==
    IF IsNaN(x) \/ IsNaN(y) THEN NaN
    ELSE IF y.num = 0 THEN (IF x.num = 0 THEN NaN ELSE Inf)
    ELSE IF IsInf(y) THEN (IF IsInf(x) THEN NaN ELSE Float(0))
    ELSE IF IsInf(x) THEN Inf
    ELSE [num |-> x.num * y.den, den |-> x.den * y.num]

NpAdd(x, y) ==
    IF IsNaN(x) \/ IsNaN(y) THEN NaN
    ELSE IF IsInf(x) \/ IsInf(y) THEN Inf
    ELSE [num |-> x.num * y.den + y.num * x.den, den |-> x.den * y.den]

RECURSIVE NpSum(_)
NpSum(row) ==
    IF row = <<>> THEN Float(0)
    ELSE NpAdd(row[1], NpSum(Tail(row)))

\* faulty variant: the division's NaN and inf are left in the matrix
nan_to_num_skipped(m) == m

nan_to_num(m) ==
    Array([j \in DOMAIN m |->
        Array([i \in DOMAIN m[j] |->
            IF IsNaN(m[j][i]) THEN Float(0)
            ELSE IF IsInf(m[j][i]) THEN FloatMax
            ELSE m[j][i]])])

\* Python's int / int: a float, or ZeroDivisionError (reported as NaN here
\* and turned into the exception by the caller)
PyDiv(n, d) == IF d = 0 THEN NaN ELSE [num |-> n, den |-> d]

Min(a, b) == IF a < b THEN a ELSE b

Max(a, b) == IF a > b THEN a ELSE b

(***************************************************************************)
(* The three metrics                                                       *)
(***************************************************************************)
Raises(m) == \E j \in DOMAIN m : \E i \in DOMAIN m[j] : IsNaN(m[j][i])

Computed(m) == [exc |-> IF Raises(m) THEN "ZeroDivisionError" ELSE "",
                value |-> IF Raises(m) THEN <<>> ELSE m]

\* faulty variant: the union is counted instead of the intersection
_calc_overlap_count_union(m1, m2) ==
    Computed(Array([j \in DOMAIN m1 |->
                Array([i \in DOMAIN m2 |->
                    Float(Cardinality(m2[i].v.items \cup m1[j].v.items))])]))

_calc_overlap_count(m1, m2) ==
    Computed(Array([j \in DOMAIN m1 |->
                Array([i \in DOMAIN m2 |->
                    Float(Cardinality(m2[i].v.items \cap m1[j].v.items))])]))

\* faulty variant: the denominator is the sum of the two sizes
_calc_overlap_coef_sum(m1, m2) ==
    Computed(Array([j \in DOMAIN m1 |->
                Array([i \in DOMAIN m2 |->
                    PyDiv(Cardinality(m2[i].v.items \cap m1[j].v.items),
                          Max(Cardinality(m2[i].v.items)
                                + Cardinality(m1[j].v.items), 1))])]))

_calc_overlap_coef(m1, m2) ==
    Computed(Array([j \in DOMAIN m1 |->
                Array([i \in DOMAIN m2 |->
                    PyDiv(Cardinality(m2[i].v.items \cap m1[j].v.items),
                          Max(Min(Cardinality(m2[i].v.items),
                                  Cardinality(m1[j].v.items)), 1))])]))

_calc_jaccard(m1, m2) ==
    Computed(Array([j \in DOMAIN m1 |->
                Array([i \in DOMAIN m2 |->
                    PyDiv(Cardinality(m2[i].v.items \cap m1[j].v.items),
                          Cardinality(m2[i].v.items \cup m1[j].v.items))])]))

(***************************************************************************)
(* marker_gene_overlap                                                     *)
(***************************************************************************)
avail_methods == {"overlap_count", "overlap_coef", "jaccard", "enrich"}

avail_norm == {"reference", "data", PyNone}

\* faulty variant: the string 'None' is not mapped to None
NormalizeArg_kept(normalize) == normalize

\* if normalize == 'None': normalize = None
NormalizeArg(normalize) == IF normalize = "None" THEN PyNone ELSE normalize

\* the threshold after clamping into [0, 1]
ClampPval(t) ==
    IF t = <<>> THEN <<>>
    ELSE LET lo == IF t[1] < 0 THEN 0 ELSE t[1]
             hi == IF lo > PRes THEN PRes ELSE lo
         IN  <<hi>>

\* faulty variant: top_n_markers below 1 is not coerced
ClampTopN_kept(n) == n

\* top_n_markers after the coercion to at least 1
ClampTopN(n) ==
    IF n = <<>> THEN <<>>
    ELSE IF n[1] < 1 THEN <<1>> ELSE n

\* the warnings logged, in order
Warnings(t, n) ==
    (IF t # <<>> /\ t[1] < 0 THEN <<"adj_pval_threshold below 0">> ELSE <<>>)
    \o (IF t # <<>> /\ Max(t[1], 0) > PRes
        THEN <<"adj_pval_threshold above 1">> ELSE <<>>)
    \o (IF t # <<>> /\ n # <<>> THEN <<"adj_pval_threshold ignored">> ELSE <<>>)
    \o (IF n # <<>> /\ n[1] < 1 THEN <<"top_n_markers below 1">> ELSE <<>>)

SetOf(s) == {s[i] : i \in DOMAIN s}

\* names[group][:n]
Head_(s, n) == SubSeq(s, 1, Min(n, Len(s)))

\* adata.uns[key]['names'].shape[0]
Shape0(table) == Len(table.names[table.cluster_ids[1]])

\* (pvals_adj[group] < adj_pval_threshold).sum()
CountBelow(pvals, t) == Cardinality({i \in DOMAIN pvals : pvals[i] < t})

\* the value of n_genes for a group, -1 when the code takes every gene
n_genes(table, group, top_n, thr) ==
    IF top_n # <<>> THEN Min(top_n[1], Shape0(table))
    ELSE IF thr # <<>> THEN CountBelow(table.pvals_adj[group], thr[1])
    ELSE -1

\* the body of the loop over cluster_ids: data_markers[group]
data_markers_of(table, group, top_n, thr) ==
    LET n == n_genes(table, group, top_n, thr)
    IN  [kind |-> "set",
         items |-> IF n = -1 THEN SetOf(table.names[group])
                   ELSE SetOf(Head_(table.names[group], n))]

\* data_markers after the loop: one entry per cluster, in cluster_ids order
BuildDataMarkers(table, top_n, thr) ==
    Array([c \in DOMAIN table.cluster_ids |->
        [k |-> table.cluster_ids[c],
         v |-> data_markers_of(table, table.cluster_ids[c], top_n, thr)]])

\* marker_match / marker_match.sum(1)[:, np.newaxis]
DivideByRowSum(m) ==
    Array([j \in DOMAIN m |->
        Array([i \in DOMAIN m[j] |-> NpDiv(m[j][i], NpSum(m[j]))])])

Column(m, i) == Array([j \in DOMAIN m |-> m[j][i]])

\* marker_match / marker_match.sum(0)
DivideByColumnSum(m) ==
    Array([j \in DOMAIN m |->
        Array([i \in DOMAIN m[j] |-> NpDiv(m[j][i], NpSum(Column(m, i)))])])

\* the "Find overlaps" block: bound says whether marker_match was assigned
FindOverlaps(method, normalize, refm, dm) ==
    IF method = "overlap_count" THEN
        LET m == _calc_overlap_count(refm, dm).value
        IN  [exc |-> "", bound |-> TRUE,
             value |-> IF normalize = "reference"
                           THEN nan_to_num(DivideByRowSum(m))
                       ELSE IF normalize = "data"
                           THEN nan_to_num(DivideByColumnSum(m))
                       ELSE m]
    ELSE IF method = "overlap_coef" THEN
        LET r == _calc_overlap_coef(refm, dm)
        IN  [exc |-> r.exc, bound |-> r.exc = "", value |-> r.value]
    ELSE IF method = "jaccard" THEN
        LET r == _calc_jaccard(refm, dm)
        IN  [exc |-> r.exc, bound |-> r.exc = "", value |-> r.value]
    ELSE [exc |-> "", bound |-> FALSE, value |-> <<>>]

Keys_(d) == Array([i \in DOMAIN d |-> d[i].k])

DataFrame(values, index, columns) ==
    [type |-> "DataFrame", values |-> values,
     index |-> index, columns |-> columns]

Absent == [type |-> "absent"]

\* What one call does: the exception raised ("" for a normal return), the
\* source line reached, the store afterwards, and the locals at that point.
Outcome(exc, line, store, dm, mm, bound, warnings) ==
    [exc |-> exc, line |-> line, uns |-> store, data_markers |-> dm,
     marker_match |-> mm, bound |-> bound, warnings |-> warnings]

\* faulty variant: the result replaces the store
Store_replacing(store, key_added, df) ==
    [k \in DOMAIN store |-> IF k = key_added THEN df ELSE Absent]

\* adata.uns[key_added] = marker_matching_df
Store(store, key_added, df) == [store EXCEPT ![key_added] = df]

\* faulty variant: an empty frame is stored under key_added before the
\* inputs are tested
Raise_after_store(exc, line, store, a, dm, bound, warnings) ==
    Outcome(exc, line,
            [store EXCEPT ![a.key_added] = DataFrame(<<>>, <<>>, <<>>)],
            dm, <<>>, bound, warnings)

\* raise: the call ends here and the store is what it was on entry
Raise(exc, line, store, a, dm, bound, warnings) ==
    Outcome(exc, line, store, dm, <<>>, bound, warnings)

marker_gene_overlap(store, refm, a) ==
    LET normalize == NormalizeArg(a.normalize)
        thr       == ClampPval(a.adj_pval_threshold)
        top_n     == ClampTopN(a.top_n_markers)
        warns     == Warnings(a.adj_pval_threshold, a.top_n_markers)
        table     == store[a.key]
    IN
    IF store[a.key] = Absent
        THEN Raise("ValueError", 125, store, a, <<>>, {}, <<>>)
    ELSE IF a.method \notin avail_methods
        THEN Raise("ValueError", 129, store, a, <<>>, {}, <<>>)
    ELSE IF normalize \notin avail_norm
        THEN Raise("ValueError", 136, store, a, <<>>, {}, <<>>)
    ELSE IF normalize # PyNone /\ a.method # "overlap_count"
        THEN Raise("ValueError", 139, store, a, <<>>, {}, <<>>)
    ELSE IF \E g \in DOMAIN refm : refm[g].v.kind # "set"
        THEN Raise("ValueError", 142, store, a, <<>>, {}, <<>>)
    ELSE IF table.type # "rank_genes_groups"
        \* a DataFrame has no column 'names'
        THEN Raise("KeyError", 169, store, a, <<>>, {"data_markers"}, warns)
    ELSE
    LET dm == BuildDataMarkers(table, top_n, thr)
        r  == FindOverlaps(a.method, normalize, refm, dm)
    IN
    IF r.exc # ""
        THEN Raise(r.exc, 206, store, a, dm, {"data_markers"}, warns)
    ELSE IF ~r.bound
        THEN Raise("UnboundLocalError", 216, store, a, dm,
                   {"data_markers"}, warns)
    ELSE Outcome("", 224,
                 Store(store, a.key_added,
                       DataFrame(r.value, Keys_(refm), Keys_(dm))),
                 dm, r.value, {"data_markers", "marker_match"}, warns)

(***************************************************************************)
(* Inputs                                                                  *)
(***************************************************************************)
Keys == {"rank_genes_groups", "marker_gene_overlap"}

Methods == {"overlap_count", "overlap_coef", "jaccard", "enrich", "bogus"}

Normalizations == {PyNone, "None", "reference", "data", "bogus"}

Opt(S) == {<<>>} \cup {<<x>> : x \in S}

Args(keys, keys_added, methods, norms, tops, thresholds) ==
    [key : keys, key_added : keys_added, method : methods, normalize : norms,
     top_n_markers : tops, adj_pval_threshold : thresholds]

\* the cluster identifiers of the table and the keys of the reference
\* collection, in order
Clusters == <<"0", "1">>

Groups == <<"T cell", "B cell">>

\* rank_genes_groups tables: per cluster a ranking of the genes and an
\* adjusted p-value for each rank

PvalSeqs == [1..NumGenes -> 0..PRes]

Table(names, pvals) ==
    [type |-> "rank_genes_groups", cluster_ids |-> Clusters,
     names |-> names, pvals_adj |-> pvals]

\* cluster c ranks the genes in the order c, c + 1, ...
Rotation(c) == [i \in 1..NumGenes |-> ((i + c - 2) % NumGenes) + 1]

Rotated == [g \in SetOf(Clusters) |->
               Rotation(CHOOSE c \in DOMAIN Clusters : Clusters[c] = g)]

\* the tables with the rankings of Rotated and the p-values of P
TablesWith(P) == {Table(Rotated, p) : p \in [SetOf(Clusters) -> P]}

PySet(S) == [kind |-> "set", items |-> S]

PyList(S) == [kind |-> "list", items |-> S]

\* the dict with the keys names, in order, and the values f
Dict(names, f) == Array([g \in DOMAIN names |-> [k |-> names[g], v |-> f[g]]])

\* the well-formed collections of gene sets with the keys names
Collections(names) ==
    {Dict(names, f) : f \in [DOMAIN names -> {PySet(S) : S \in SUBSET Genes}]}

NoCall == [key |-> "", key_added |-> "", method |-> "", normalize |-> "",
           top_n_markers |-> <<>>, adj_pval_threshold |-> <<>>]

NoRet == [exc |-> "", line |-> 0, data_markers |-> <<>>,
          marker_match |-> <<>>, bound |-> {}, warnings |-> <<>>]

NoResult == [exc |-> "unset", value |-> <<>>]

NoOverlaps == [overlap_count |-> NoResult, overlap_coef |-> NoResult,
               jaccard |-> NoResult]

(***************************************************************************)
(* The call                                                                *)
(***************************************************************************)
Invoke(a) ==
    \E r \in {marker_gene_overlap(uns, reference_markers, a)} :
        /\ call' = a
        /\ uns' = r.uns
        /\ ret' = [exc |-> r.exc, line |-> r.line,
                   data_markers |-> r.data_markers,
                   marker_match |-> r.marker_match,
                   bound |-> r.bound, warnings |-> r.warnings]
        /\ UNCHANGED <<reference_markers, markers1, markers2, overlaps>>

\* the table is stored under one of keys, the rest of the store is empty
InitStore(keys, tables, refs) ==
    /\ \E k0 \in keys, t \in tables :
          uns = [k \in Keys |-> IF k = k0 THEN t ELSE Absent]
    /\ reference_markers \in refs
    /\ call = NoCall
    /\ ret = NoRet
    /\ markers1 = <<>>
    /\ markers2 = <<>>
    /\ overlaps = NoOverlaps

(***************************************************************************)
(* Spec: calls on the store, with every method, normalization, key and     *)
(* key_added, on well-formed and malformed reference collections; every    *)
(* gene of the table has adjusted p-value 0                                *)
(***************************************************************************)
StoreTables == TablesWith({[i \in 1..NumGenes |-> 0]})

StoreRefs == {Dict(Groups, [g \in DOMAIN Groups |->
                              IF g = 1 THEN v ELSE PySet(Genes)]) :
                 v \in {PySet({}), PySet(Genes), PyList(Genes)}}

StoreArgs == Args(Keys, Keys, Methods, Normalizations, {<<>>}, Opt({0}))

Init == InitStore(Keys, StoreTables, StoreRefs)

Next == \E a \in StoreArgs : Invoke(a)

Spec == Init /\ [][Next]_vars

(***************************************************************************)
(* SpecSelect: the selection of the data-derived marker sets, with every   *)
(* sequence of p-values, every top_n_markers and every adj_pval_threshold  *)
(***************************************************************************)
SelectRefs == {Dict(Groups, [g \in DOMAIN Groups |-> PySet(Genes)])}

SelectArgs == Args({"rank_genes_groups"}, {"marker_gene_overlap"},
                   {"overlap_count"}, {PyNone},
                   Opt(0..NumGenes + 1), Opt(-1..PRes + 1))

InitSelect == InitStore({"rank_genes_groups"}, TablesWith(PvalSeqs), SelectRefs)

NextSelect == \E a \in SelectArgs : Invoke(a)

SpecSelect == InitSelect /\ [][NextSelect]_vars

(***************************************************************************)
(* SpecOverlap: the overlap matrix and its normalization, on every         *)
(* well-formed reference collection; in each cluster the p-values are 0    *)
(* up to some rank and 1 after it                                          *)
(***************************************************************************)
Steps == {[i \in 1..NumGenes |-> IF i <= k THEN 0 ELSE PRes] : k \in 0..NumGenes}

OverlapArgs == Args({"rank_genes_groups"}, {"marker_gene_overlap"},
                    {"overlap_count", "overlap_coef", "jaccard"},
                    {PyNone, "reference", "data"},
                    {<<>>}, Opt({PRes}))

InitOverlap ==
    InitStore({"rank_genes_groups"}, TablesWith(Steps), Collections(Groups))

NextOverlap == \E a \in OverlapArgs : Invoke(a)

SpecOverlap == InitOverlap /\ [][NextOverlap]_vars

(***************************************************************************)
(* SpecMetrics: the three metrics on every pair of collections             *)
(***************************************************************************)
InitMetrics ==
    /\ markers1 \in Collections(Groups)
    /\ markers2 \in Collections(Clusters)
    /\ overlaps = NoOverlaps
    /\ uns = [k \in Keys |-> Absent]
    /\ reference_markers = <<>>
    /\ call = NoCall
    /\ ret = NoRet

CalcOverlapCount ==
    /\ overlaps' = [overlaps EXCEPT
                      !.overlap_count = _calc_overlap_count(markers1, markers2)]
    /\ UNCHANGED <<uns, reference_markers, call, ret, markers1, markers2>>

CalcOverlapCoef ==
    /\ overlaps' = [overlaps EXCEPT
                      !.overlap_coef = _calc_overlap_coef(markers1, markers2)]
    /\ UNCHANGED <<uns, reference_markers, call, ret, markers1, markers2>>

CalcJaccard ==
    /\ overlaps' = [overlaps EXCEPT
                      !.jaccard = _calc_jaccard(markers1, markers2)]
    /\ UNCHANGED <<uns, reference_markers, call, ret, markers1, markers2>>

NextMetrics == CalcOverlapCount \/ CalcOverlapCoef \/ CalcJaccard

SpecMetrics == InitMetrics /\ [][NextMetrics]_vars

(***************************************************************************)
(* Properties                                                              *)
(***************************************************************************)
Supported == {"overlap_count", "overlap_coef", "jaccard"}

Called == ret.line # 0

Returned == ret.line = 224

Items(d, i) == d[i].v.items

RatLeq(x, y) == x.num * y.den <= y.num * x.den

RatEq(x, y) == x.num * y.den = y.num * x.den

\* C1: a call with a method other than overlap_count, overlap_coef and
\* jaccard raises ValueError during validation, with neither data_markers
\* nor marker_match assigned, and raises nothing else.
C1_UnsupportedMethodIsValueError ==
    (Called /\ call.method \notin Supported) =>
        /\ ret.exc = "ValueError"
        /\ ret.line <= 143
        /\ ret.bound = {}

\* C2: a call with method jaccard never ends in ZeroDivisionError, also when
\* a reference set and a selected cluster set are both empty.
C2_JaccardNoZeroDivision ==
    (Called /\ call.method = "jaccard") => ret.exc # "ZeroDivisionError"

Clamp01(t) == IF t < 0 THEN 0 ELSE IF t > PRes THEN PRes ELSE t

\* the number of leading entries of p that are all below t
LeadingBelow(p, t) ==
    Cardinality({k \in DOMAIN p : \A i \in 1..k : p[i] < t})

\* C3: with adj_pval_threshold t alone, the set selected for a cluster is
\* the set of genes of the longest leading run of ranks whose adjusted
\* p-values are all below t clamped into [0, 1]; every selected gene has
\* p-value below the clamped t, and t = 0 selects nothing.
C3_ThresholdSelectsLeadingPrefix ==
    (Returned /\ call.top_n_markers = <<>> /\ call.adj_pval_threshold # <<>>)
    => LET table == uns[call.key]
           t     == Clamp01(call.adj_pval_threshold[1])
       IN  \A c \in DOMAIN ret.data_markers :
              LET g == table.cluster_ids[c]
              IN  /\ ret.data_markers[c].k = g
                  /\ Items(ret.data_markers, c) =
                       {table.names[g][i] :
                          i \in 1..LeadingBelow(table.pvals_adj[g], t)}
                  /\ \A i \in DOMAIN table.names[g] :
                       table.names[g][i] \in Items(ret.data_markers, c)
                          => table.pvals_adj[g][i] < t
                  /\ t = 0 => Items(ret.data_markers, c) = {}

\* C4: a call that ends in an exception leaves adata.uns as it was.
C4_FailureLeavesStoreUnchanged ==
    [][ret'.exc # "" => uns' = uns]_vars

C4_Witness ==
    /\ ret.exc = "ZeroDivisionError"
    /\ \E k \in Keys : uns[k].type = "DataFrame"

\* C5: normalize in {reference, data} with overlap_coef or jaccard ends in
\* ValueError with no matrix computed; normalize 'None' and normalize None
\* are never rejected with a supported method, and the matrix they give is
\* the metric itself.
C5_NormalizeNeedsOverlapCount ==
    /\ (Called /\ call.normalize \in {"reference", "data"}
               /\ call.method \in {"overlap_coef", "jaccard"})
       => /\ ret.exc = "ValueError"
          /\ "marker_match" \notin ret.bound
    /\ (Called /\ call.normalize \in {"None", PyNone}
               /\ call.method \in Supported)
       => /\ ret.line \notin {129, 136, 139}
          /\ Returned =>
               ret.marker_match =
                 (CASE call.method = "overlap_count" ->
                         _calc_overlap_count(reference_markers,
                                             ret.data_markers)
                    [] call.method = "overlap_coef" ->
                         _calc_overlap_coef(reference_markers,
                                            ret.data_markers)
                    [] call.method = "jaccard" ->
                         _calc_jaccard(reference_markers,
                                       ret.data_markers)).value

C5_Witness ==
    /\ call.normalize = "reference"
    /\ call.method = "jaccard"
    /\ ret.exc = "ValueError"
    /\ ret.line = 139

\* C6: with top_n_markers = n the set selected for a cluster is the set of
\* its first min(max(n, 1), number of ranked genes) genes, whatever
\* adj_pval_threshold is; the call raises nothing and logs a warning when
\* n < 1 and when the threshold is set too.
C6_TopNSelectsFirstGenes ==
    (Called /\ call.top_n_markers # <<>>)
    => LET table == uns[call.key]
           n     == call.top_n_markers[1]
       IN  /\ ret.exc = ""
           /\ "data_markers" \in ret.bound
           /\ Len(ret.data_markers) = Len(table.cluster_ids)
           /\ \A c \in DOMAIN ret.data_markers :
                LET g == table.cluster_ids[c]
                IN  /\ ret.data_markers[c].k = g
                    /\ Items(ret.data_markers, c) =
                         {table.names[g][i] :
                            i \in 1..Min(Max(n, 1), Len(table.names[g]))}
           /\ n < 1 <=> "top_n_markers below 1" \in SetOf(ret.warnings)
           /\ call.adj_pval_threshold # <<>>
                <=> "adj_pval_threshold ignored" \in SetOf(ret.warnings)

C6_Witness ==
    /\ Returned
    /\ call.top_n_markers = <<0>>
    /\ call.adj_pval_threshold = <<0>>
    /\ \E c \in DOMAIN ret.data_markers :
          Cardinality(Items(ret.data_markers, c)) = 1

RECURSIVE Sum(_)
Sum(s) == IF s = <<>> THEN 0 ELSE s[1] + Sum(Tail(s))

RECURSIVE RatSum(_)
RatSum(s) ==
    IF s = <<>> THEN [num |-> 0, den |-> 1]
    ELSE LET r == RatSum(Tail(s))
         IN  [num |-> s[1].num * r.den + r.num * s[1].den,
              den |-> s[1].den * r.den]

\* |R_j \cap D_i| for reference group j and cluster i of the last call
Count(j, i) ==
    Cardinality(Items(reference_markers, j) \cap Items(ret.data_markers, i))

RowCount(j) == Sum(Array([i \in DOMAIN ret.data_markers |-> Count(j, i)]))

ColumnCount(i) == Sum(Array([j \in DOMAIN reference_markers |-> Count(j, i)]))

Stored == uns[call.key_added]

HasShape(m) ==
    /\ DOMAIN m = DOMAIN reference_markers
    /\ \A j \in DOMAIN m : DOMAIN m[j] = DOMAIN ret.data_markers

\* C7: with overlap_count and normalize = reference every entry of the
\* stored matrix is finite, a row with a non-zero count has entries
\* count / (sum of the row's counts) and sums to 1, and a row of zero counts
\* is all zero; with normalize = data the same holds of the columns.
C7_NormalizedRowsAndColumns ==
    /\ (Returned /\ call.method = "overlap_count"
                 /\ call.normalize = "reference")
       => /\ HasShape(Stored.values)
          /\ \A j \in DOMAIN Stored.values :
               LET row == Stored.values[j]
               IN  /\ \A i \in DOMAIN row : IsFinite(row[i])
                   /\ RowCount(j) > 0 =>
                        /\ \A i \in DOMAIN row :
                             RatEq(row[i], [num |-> Count(j, i),
                                            den |-> RowCount(j)])
                        /\ RatEq(RatSum(row), Float(1))
                   /\ RowCount(j) = 0 => \A i \in DOMAIN row : row[i].num = 0
    /\ (Returned /\ call.method = "overlap_count" /\ call.normalize = "data")
       => /\ HasShape(Stored.values)
          /\ \A i \in DOMAIN ret.data_markers :
               LET col == Array([j \in DOMAIN Stored.values |->
                                    Stored.values[j][i]])
               IN  /\ \A j \in DOMAIN col : IsFinite(col[j])
                   /\ ColumnCount(i) > 0 =>
                        /\ \A j \in DOMAIN col :
                             RatEq(col[j], [num |-> Count(j, i),
                                            den |-> ColumnCount(i)])
                        /\ RatEq(RatSum(col), Float(1))
                   /\ ColumnCount(i) = 0 => \A j \in DOMAIN col : col[j].num = 0

C7_Witness ==
    /\ Returned
    /\ call.method = "overlap_count"
    /\ call.normalize = "reference"
    /\ \E j \in DOMAIN reference_markers : RowCount(j) = 0
    /\ \E j \in DOMAIN reference_markers :
          /\ RowCount(j) > 1
          /\ \A i \in DOMAIN ret.data_markers : Count(j, i) > 0

InUnit(x) == IsFinite(x) /\ 0 <= x.num /\ x.num <= x.den

BothEmpty(j, i) == Items(markers1, j) = {} /\ Items(markers2, i) = {}

\* C8: _calc_jaccard raises exactly when some pair of sets is empty on both
\* sides and _calc_overlap_coef never raises; when both have returned, for
\* every pair the Jaccard value is at most the overlap coefficient, both lie
\* in [0, 1], and both are 0 when the data set is empty and the reference
\* set is not.
C8_JaccardAtMostOverlapCoef ==
    /\ overlaps.overlap_coef.exc \in {"unset", ""}
    /\ overlaps.jaccard.exc # "unset" =>
         (overlaps.jaccard.exc = "ZeroDivisionError"
            <=> \E j \in DOMAIN markers1, i \in DOMAIN markers2 :
                   BothEmpty(j, i))
    /\ (overlaps.jaccard.exc = "" /\ overlaps.overlap_coef.exc = "")
       => LET jacc == overlaps.jaccard.value
              coef == overlaps.overlap_coef.value
          IN  \A j \in DOMAIN markers1, i \in DOMAIN markers2 :
                 /\ InUnit(jacc[j][i])
                 /\ InUnit(coef[j][i])
                 /\ RatLeq(jacc[j][i], coef[j][i])
                 /\ (Items(markers2, i) = {} /\ Items(markers1, j) # {})
                    => jacc[j][i].num = 0 /\ coef[j][i].num = 0

C8_Witness ==
    /\ overlaps.jaccard.exc = ""
    /\ overlaps.overlap_coef.exc = ""
    /\ \E j \in DOMAIN markers1, i \in DOMAIN markers2 :
          /\ overlaps.jaccard.value[j][i].num > 0
          /\ ~RatLeq(overlaps.overlap_coef.value[j][i],
                     overlaps.jaccard.value[j][i])
    /\ \E j \in DOMAIN markers1, i \in DOMAIN markers2 :
          Items(markers2, i) = {} /\ Items(markers1, j) # {}

\* the genes of cluster g with adjusted p-value below t, or all of them
SelectedBelow(table, g, thr) ==
    IF thr = <<>> THEN SetOf(table.names[g])
    ELSE {table.names[g][i] :
            i \in {r \in DOMAIN table.names[g] :
                     table.pvals_adj[g][r] < Clamp01(thr[1])}}

\* C9: with overlap_count and no normalization the stored matrix has the
\* reference collection's keys as row labels and the table's cluster
\* identifiers as column labels, both in order; cell (j, i) is the size of
\* the intersection of reference set j with the set selected for cluster i,
\* at most the size of either, and equal to cell (i, j) of the count matrix
\* of the two collections swapped.
C9_OverlapCountMatrix ==
    (Returned /\ call.method = "overlap_count"
              /\ NormalizeArg(call.normalize) = PyNone)
    => LET table   == uns[call.key]
           swapped == _calc_overlap_count(ret.data_markers,
                                          reference_markers).value
       IN  /\ Stored.type = "DataFrame"
           /\ Stored.index = Groups
           /\ Stored.columns = table.cluster_ids
           /\ DOMAIN Stored.values = DOMAIN reference_markers
           /\ \A j \in DOMAIN Stored.values :
                /\ DOMAIN Stored.values[j] = DOMAIN table.cluster_ids
                /\ \A i \in DOMAIN table.cluster_ids :
                     LET R == Items(reference_markers, j)
                         D == SelectedBelow(table, table.cluster_ids[i],
                                            call.adj_pval_threshold)
                         n == Cardinality(R \cap D)
                     IN  /\ Stored.values[j][i] = Float(n)
                         /\ n <= Min(Cardinality(R), Cardinality(D))
                         /\ swapped[i][j] = Stored.values[j][i]

C9_Witness ==
    /\ Returned
    /\ call.method = "overlap_count"
    /\ call.normalize = PyNone
    /\ call.adj_pval_threshold # <<>>
    /\ \E j, jj \in DOMAIN reference_markers, i, ii \in DOMAIN ret.data_markers :
          /\ Stored.values[j][i] = Float(1)
          /\ Stored.values[j][ii] = Float(0)
          /\ Stored.values[jj][ii] = Float(1)
          /\ Cardinality(Items(ret.data_markers, i)) > 1
          /\ Items(ret.data_markers, ii) # {}

\* the next call with the arguments of this one returns and stores what
\* this one stored
Repeatable(store, refm, a) ==
    LET again == marker_gene_overlap(store, refm, a)
    IN  again.exc = "" /\ again.uns = store

OnlyKeyAdded ==
    /\ \A k \in Keys \ {call'.key_added} : uns'[k] = uns[k]
    /\ uns'[call'.key] = uns[call'.key]
    /\ reference_markers' = reference_markers
    /\ Repeatable(uns', reference_markers', call')

\* C10 as claimed: a call that returns changes only uns[key_added], leaves
\* uns[key] and the reference collection as they were, and can be repeated
\* with the same arguments to return and store the same matrix, for every
\* key and key_added.
C10_ReturnChangesOnlyKeyAdded ==
    [][ret'.exc = "" => OnlyKeyAdded]_vars

\* C10 as amended: the same, for every key and every key_added other than
\* key.
C10_ReturnChangesOnlyKeyAddedDistinct ==
    [][(ret'.exc = "" /\ call'.key_added # call'.key) => OnlyKeyAdded]_vars

C10_Witness ==
    /\ Returned
    /\ call.key = "marker_gene_overlap"
    /\ call.key_added = "rank_genes_groups"
    /\ uns[call.key].type = "rank_genes_groups"
    /\ Stored.type = "DataFrame"
    /\ Stored.values # <<>>

====
